---- MODULE Spec2Model ----
(***************************************************************************)
(* A model of the LiveTranslator client (static/js/translator.js): the     *)
(* column selection, the debounced translation requests, the merge of the  *)
(* provider's replies and the Firebase synchronisation of one session.     *)
(* The file holds two variants of the class: the one with Firebase sync    *)
(* and a significance filter ("sync"), and the earlier one without either  *)
(* ("nosync").  A behaviour runs one variant, chosen in the initial state. *)
(***************************************************************************)
EXTENDS Integers, Sequences, FiniteSets, TLC

\* ------------------------------------------------------------------ bounds
\* events from outside per behaviour: input events, uses of the "clear all"
\* control, and snapshots written to the session by other clients
MaxEvents == 2

\* --------------------------------------------------------------- constants
Devices == {"A", "B"}
Languages == {"french", "english", "polish"}
\* a language identifier that names no column of this page
UnknownLang == "klingon"
\* JavaScript's null, for a language
NoLang == "null"
DefaultLanguage == "english"
\* shouldTranslateNewContent: if (newCharCount < 10) return false
MinNewChars == 10
\* shouldTranslateNewContent: currentLastSentence.length - previousLastSentence.length > 30
TailGrowth == 30

\* -------------------------------------------------------------------- text
\* A text is a sequence of one-character strings.
Empty == <<>>
Blank == <<" ">>
Hi == <<"H", "i">>
Hello == <<"H", "e", "l", "l", "o", " ", "t", "h", "e", "r", "e", ".">>
HelloSp == Hello \o <<" ">>
HiStop == Hi \o <<".">>
\* what an input event may leave in the focused textarea
InputTexts == {Blank, Hi, HiStop, HelloSp}

IsSpace(c) == c \in {" ", "\t", "\n"}
IsTerminator(c) == c \in {".", "!", "?"}

RECURSIVE TrimStart(_)
TrimStart(s) ==
    IF s = <<>> THEN s
    ELSE IF IsSpace(Head(s)) THEN TrimStart(Tail(s)) ELSE s

RECURSIVE TrimEnd(_)
TrimEnd(s) ==
    IF s = <<>> THEN s
    ELSE IF IsSpace(s[Len(s)]) THEN TrimEnd(SubSeq(s, 1, Len(s) - 1)) ELSE s

\* String.prototype.trim
Trim(s) == TrimEnd(TrimStart(s))

\* text.split(/[.!?]+/): the pieces between maximal runs of terminators, the
\* empty piece before a leading run and after a trailing run included.
RECURSIVE SplitFrom(_, _, _)
SplitFrom(s, i, cur) ==
    IF i > Len(s) THEN <<cur>>
    ELSE IF IsTerminator(s[i])
         THEN IF i > 1 /\ IsTerminator(s[i - 1])
              THEN SplitFrom(s, i + 1, cur)
              ELSE <<cur>> \o SplitFrom(s, i + 1, <<>>)
         ELSE SplitFrom(s, i + 1, Append(cur, s[i]))

SplitSentences(s) == SplitFrom(s, 1, <<>>)

\* .filter(s => s.trim().length > 0)
NonBlank(pieces) == SelectSeq(pieces, LAMBDA p : Len(Trim(p)) > 0)

Sentences(s) == NonBlank(SplitSentences(s))

\* mutant: the test on the number of new characters is left out
shouldTranslateAnyLength(lastText, currentText) ==
    LET sentences == Sentences(currentText)
        lastSentences == Sentences(lastText)
    IN  IF Len(currentText) < Len(lastText) THEN TRUE
        ELSE IF Len(sentences) > Len(lastSentences) THEN TRUE
        ELSE IF Len(sentences) > 0 /\ Len(lastSentences) > 0
             THEN Len(Trim(sentences[Len(sentences)]))
                    - Len(Trim(lastSentences[Len(lastSentences)])) > TailGrowth
             ELSE FALSE

shouldTranslateNewContent(lastText, currentText) ==
    LET newCharCount == Len(currentText) - Len(lastText)
        sentences == Sentences(currentText)
        lastSentences == Sentences(lastText)
    IN  IF Len(currentText) < Len(lastText) THEN TRUE
        ELSE IF newCharCount < MinNewChars THEN FALSE
        ELSE IF Len(sentences) > Len(lastSentences) THEN TRUE
        ELSE IF Len(sentences) > 0 /\ Len(lastSentences) > 0
             THEN Len(Trim(sentences[Len(sentences)]))
                    - Len(Trim(lastSentences[Len(lastSentences)])) > TailGrowth
             ELSE FALSE

\* ------------------------------------------------------ provider and store
Initial == [l \in Languages \cup {UnknownLang} |->
              CASE l = "french" -> "f" [] l = "english" -> "e"
                [] l = "polish" -> "p" [] OTHER -> "k"]
\* a translated text for language l: "1" from this device's provider calls,
\* "2" from the calls of other clients
Tx(l, v) == <<Initial[l], v>>

EmptyMap == [l \in {} |-> <<>>]
\* the translation maps a successful reply may carry for a request from src:
\* one text per other language, or per language (the source included)
ResultMaps(src) ==
    { [l \in D |-> Tx(l, "1")] : D \in {Languages \ {src}, Languages} }

AllResultMaps == UNION { ResultMaps(s) : s \in Languages }

\* the record kept under sessions/<sessionId>
DataSnapshot(m, a) == [kind |-> "data", translations |-> m, activeLanguage |-> a]
\* initFirebaseSync's connection test: {test, timestamp}, no translations
TestData == [kind |-> "test", translations |-> EmptyMap, activeLanguage |-> NoLang]
AllEmpty == [l \in Languages |-> <<>>]
\* a translation stored as the JSON number 42 instead of a string: a
\* textarea it is assigned to shows the text 42, and it is the only value of
\* the model that is not a string
NumberText == <<"4", "2">>
IsString(v) == v # NumberText

\* what another client of the session may write: a translation result with
\* its source language, the cleared record, a connection test, the record
\* of a page with another set of columns, or a record whose french
\* translation is a number
RemoteSnapshots ==
    { DataSnapshot([l \in Languages \ {"french"} |-> Tx(l, "2")], "french"),
      DataSnapshot([l \in Languages |-> Tx(l, "2")], "polish"),
      DataSnapshot(AllEmpty, NoLang),
      TestData,
      DataSnapshot([l \in Languages \cup {UnknownLang} |-> Tx(l, "2")], UnknownLang),
      DataSnapshot([l \in {"french"} |-> NumberText], NoLang) }

\* ------------------------------------------------------------------- state
VARIABLES
    variant,             \* "sync" | "nosync": which LiveTranslator class runs
    devices,             \* the devices whose page is loaded
    database,            \* [d]: this.database is set (window.firebase present)
    activeLanguage,      \* [d]: this.activeLanguage
    activeClass,         \* [d]: the columns carrying the CSS class "active"
    focus,               \* [d]: document.activeElement, a language or NoLang
    value,               \* [d][l]: input.value of column l
    lastTranslatedText,  \* [d][l]: this.lastTranslatedText[l]
    translationTimeout,  \* [d]: the pending debounce timers' payloads
    isTranslating,       \* [d]: this.isTranslating
    requests,            \* [d]: the fetches to /translate awaiting a reply
    isReceivingUpdate,   \* [d]: this.isReceivingUpdate
    graceTimer,          \* [d]: the 2000 ms timeout of onValue is pending
    isNearBottom,        \* [d][l]: column l is scrolled to within 50 px of its
                         \* end (sync: computed from scrollTop; nosync:
                         \* this.scrollPositions[l].isNearBottom)
    store,               \* the record under the session key
    inbox,               \* [d]: the value events not yet delivered to d
    nEvents,             \* events from outside so far
    lastApplied,         \* [d]: the snapshot d applied last, if no local event
                         \* (user event, timer expiry, reply) came after it
    dropped,             \* [d]: a debounce expiry was dropped by translateText
                         \* and no request was issued since
    last                 \* the last event, for stating properties

devVars == <<activeLanguage, activeClass, focus, value, lastTranslatedText,
             translationTimeout, isTranslating, requests, isReceivingUpdate,
             graceTimer, isNearBottom>>
vars == <<variant, devices, database, devVars, store, inbox,
          nEvents, lastApplied, dropped, last>>

Upd(f, d, v) == [f EXCEPT ![d] = v]

\* ------------------------------------------------------------ selectColumn
\* mutant: the class is added without removing it from the other columns
ColumnsAfterSelectKeeping(classes, language) ==
    classes \cup (IF language \in Languages THEN {language} ELSE {})

\* classList.remove('active') on every column, then add on the one found
ColumnsAfterSelect(classes, language) ==
    IF language \in Languages THEN {language} ELSE {}

\* input.focus() when the input exists
FocusAfterSelect(cur, language) ==
    IF language \in Languages THEN language ELSE cur

\* ---------------------------------------------------------------- initial
\* The state after `new LiveTranslator()`: init() sets every
\* lastTranslatedText to '', and the sync variant selects 'english' and
\* writes its connection test to the session.
InitFor(D, V, F) ==
    /\ variant \in V
    /\ devices = D
    /\ database = [d \in Devices |-> variant = "sync" /\ d \in F]
    /\ activeLanguage = [d \in Devices |->
                           IF variant = "sync" THEN DefaultLanguage ELSE NoLang]
    /\ activeClass = [d \in Devices |->
                        IF variant = "sync"
                        THEN ColumnsAfterSelect({}, DefaultLanguage) ELSE {}]
    /\ focus = [d \in Devices |->
                  IF variant = "sync"
                  THEN FocusAfterSelect(NoLang, DefaultLanguage) ELSE NoLang]
    /\ value = [d \in Devices |-> AllEmpty]
    /\ lastTranslatedText = [d \in Devices |-> AllEmpty]
    /\ translationTimeout = [d \in Devices |-> <<>>]
    /\ isTranslating = [d \in Devices |-> FALSE]
    /\ requests = [d \in Devices |-> <<>>]
    /\ isReceivingUpdate = [d \in Devices |-> FALSE]
    /\ graceTimer = [d \in Devices |-> FALSE]
    /\ isNearBottom = [d \in Devices |-> [l \in Languages |-> TRUE]]
    /\ store = TestData
    /\ inbox = [d \in Devices |-> IF database[d] THEN <<TestData>> ELSE <<>>]
    /\ nEvents = 0
    /\ lastApplied = [d \in Devices |-> <<>>]
    /\ dropped = [d \in Devices |-> FALSE]
    /\ last = [op |-> "init"]

Init == InitFor({"A"}, {"sync", "nosync"}, {"A"})

\* ----------------------------------------------------------- user events
\* click, focus or touchstart on the input of column l (sync), click on the
\* column or focus of its input (nosync): selectColumn(l)
SelectColumn(d, l) ==
    /\ d \in devices
    /\ UNCHANGED isNearBottom
    /\ lastApplied' = Upd(lastApplied, d, <<>>)
    /\ UNCHANGED dropped
    /\ activeLanguage' = Upd(activeLanguage, d, l)
    /\ activeClass' = Upd(activeClass, d, ColumnsAfterSelect(activeClass[d], l))
    /\ focus' = Upd(focus, d, FocusAfterSelect(focus[d], l))
    /\ last' = [op |-> "select", dev |-> d, lang |-> l]
    /\ UNCHANGED <<variant, devices, database, value, lastTranslatedText,
                   translationTimeout, isTranslating, requests,
                   isReceivingUpdate, graceTimer, store, inbox, nEvents>>

\* the focused input loses the focus (a tap outside, the keyboard dismissed)
Blur(d) ==
    /\ d \in devices
    /\ UNCHANGED isNearBottom
    /\ lastApplied' = Upd(lastApplied, d, <<>>)
    /\ UNCHANGED dropped
    /\ focus[d] # NoLang
    /\ focus' = Upd(focus, d, NoLang)
    /\ last' = [op |-> "blur", dev |-> d]
    /\ UNCHANGED <<variant, devices, database, activeLanguage, activeClass,
                   value, lastTranslatedText, translationTimeout,
                   isTranslating, requests, isReceivingUpdate, graceTimer,
                   store, inbox, nEvents>>

\* ------------------------------------------------------------- handleInput
\* mutant: nothing is cleared
ClearNoColumns(texts, sourceLanguage) == texts

\* clearOtherColumns: '' for every language but the source
ClearOtherColumns(texts, sourceLanguage) ==
    [l \in Languages |-> IF l # sourceLanguage THEN <<>> ELSE texts[l]]

\* mutant: the timer is started only for a text longer than the last one
ShouldScheduleOnGrowth(v, lastText, text) == Len(Trim(text)) > Len(lastText)

\* the test that lets handleInput start the debounce timer (text not empty)
ShouldSchedule(v, lastText, text) ==
    IF v = "sync" THEN shouldTranslateNewContent(lastText, Trim(text))
    ELSE lastText # Trim(text)

\* mutant: the callback hands over the text as typed, untrimmed
TimerPayloadRaw(v, text, sourceLanguage) ==
    [text |-> text, src |-> sourceLanguage]

\* what the timer's callback hands to translateText
TimerPayload(v, text, sourceLanguage) ==
    [text |-> IF v = "sync" THEN Trim(text) ELSE text, src |-> sourceLanguage]

\* mutant: no clearTimeout, the new timer is started beside the pending one
TimeoutAfterInputKeeping(pending, schedule, payload) ==
    IF schedule THEN Append(pending, payload) ELSE pending

\* clearTimeout(this.translationTimeout), then setTimeout when scheduling
TimeoutAfterInput(pending, schedule, payload) ==
    IF schedule THEN <<payload>> ELSE <<>>

\* an emptied textarea cannot be scrolled: its scrollTop is 0 and within
\* 50 px of the end; the no-sync tracker is written only by the scroll
\* listener, and only while the text overflows
NearAfterEmpty(v, near) == IF v = "sync" THEN TRUE ELSE near

\* scrollToBottomIfTyping on the textarea typed in
NearAfterTyping(v, near, text) ==
    IF text # <<>> THEN TRUE ELSE NearAfterEmpty(v, near)

\* isNearBottom of every column after an accepted input event
ScrollAfterInput(v, near, text, sourceLanguage) ==
    [l \in Languages |->
        IF l = sourceLanguage THEN NearAfterTyping(v, near[l], text)
        ELSE IF Trim(text) = <<>> THEN NearAfterEmpty(v, near[l])
        ELSE near[l]]

\* autoScrollToBottomForLanguage on a column that was given the text: the
\* sync variant scrolls every column but the active one to the end, and the
\* active one when it is near the end; the no-sync variant scrolls a column
\* only when its tracker says it was near the end
AutoScroll(v, near, language, active, text) ==
    IF text = <<>> THEN NearAfterEmpty(v, near)
    ELSE IF v = "sync" THEN language # active \/ near
    ELSE near

HandleInput(d, typed, text, sourceLanguage) ==
    LET cleared == Trim(text) = <<>>
        schedule == ~cleared /\ ShouldSchedule(variant,
                                    lastTranslatedText[d][sourceLanguage], text)
    IN  /\ value' = Upd(value, d,
                        IF cleared THEN ClearOtherColumns(typed, sourceLanguage)
                        ELSE typed)
        /\ lastTranslatedText' = Upd(lastTranslatedText, d,
              IF cleared
              THEN ClearOtherColumns(lastTranslatedText[d], sourceLanguage)
              ELSE lastTranslatedText[d])
        /\ translationTimeout' = Upd(translationTimeout, d,
              TimeoutAfterInput(translationTimeout[d], schedule,
                                TimerPayload(variant, text, sourceLanguage)))

\* mutant: the listener hands every input event to handleInput
InputAcceptedAlways(active, language) == TRUE

\* the listener's test: if (this.activeLanguage === language)
InputAccepted(active, language) == active = language

\* an input event on the focused textarea, whose value the browser has set to t
Input(d, t) ==
    /\ d \in devices
    /\ lastApplied' = Upd(lastApplied, d, <<>>)
    /\ UNCHANGED dropped
    /\ nEvents < MaxEvents
    /\ focus[d] \in Languages
    /\ LET l == focus[d]
           typed == [value[d] EXCEPT ![l] = t]
           accepted == InputAccepted(activeLanguage[d], l)
       IN  /\ IF accepted
              THEN /\ HandleInput(d, typed, t, l)
                   /\ isNearBottom' = Upd(isNearBottom, d,
                         ScrollAfterInput(variant, isNearBottom[d], t, l))
              ELSE /\ value' = Upd(value, d, typed)
                   /\ UNCHANGED <<lastTranslatedText, translationTimeout,
                                  isNearBottom>>
           /\ last' = [op |-> "input", dev |-> d, lang |-> l,
                       accepted |-> accepted,
                       \* clearTimeout found a timer pending
                       cancelled |-> accepted /\ translationTimeout[d] # <<>>,
                       \* the text of the request that has just failed
                       resubmits |-> /\ accepted
                                     /\ last.op = "reply" /\ last.dev = d
                                     /\ last.outcome # "ok" /\ last.src = l
                                     /\ Trim(last.text) = Trim(t)]
    /\ nEvents' = nEvents + 1
    /\ UNCHANGED <<variant, devices, database, activeLanguage, activeClass,
                   focus, isTranslating, requests, isReceivingUpdate,
                   graceTimer, store, inbox>>

\* ----------------------------------------------------------- translateText
\* mutant: no in-flight guard
MayTranslateAlways(translating) == TRUE

\* if (this.isTranslating) return
MayTranslate(translating) == ~translating

\* the debounce delay elapses: translateText(text, sourceLanguage) up to the
\* await of fetch
TimerFire(d) ==
    /\ d \in devices
    /\ UNCHANGED isNearBottom
    /\ lastApplied' = Upd(lastApplied, d, <<>>)
    /\ translationTimeout[d] # <<>>
    /\ LET p == Head(translationTimeout[d])
           issue == MayTranslate(isTranslating[d])
       IN  /\ translationTimeout' = Upd(translationTimeout, d,
                                        Tail(translationTimeout[d]))
           /\ isTranslating' = Upd(isTranslating, d, isTranslating[d] \/ issue)
           /\ requests' = Upd(requests, d,
                              IF issue THEN Append(requests[d], p) ELSE requests[d])
           /\ dropped' = Upd(dropped, d, ~issue)
           /\ last' = [op |-> "timer", dev |-> d, issued |-> issue]
    /\ UNCHANGED <<variant, devices, database, activeLanguage, activeClass,
                   focus, value, lastTranslatedText, isReceivingUpdate,
                   graceTimer, store, inbox, nEvents>>

\* mutant: the source column is not skipped
UpdateTranslationsAll(texts, translations, sourceLanguage) ==
    [l \in Languages |->
        IF l \in DOMAIN translations THEN translations[l] ELSE texts[l]]

\* updateTranslations: every language of the result but the source
UpdateTranslations(texts, translations, sourceLanguage) ==
    [l \in Languages |->
        IF l \in DOMAIN translations /\ l # sourceLanguage
        THEN translations[l] ELSE texts[l]]

\* mutant: a success records the translations only, not the text sent
LastAfterSuccessTargetsOnly(v, lt, translations, sent, sourceLanguage) ==
    [l \in Languages |->
        IF l # sourceLanguage /\ l \in DOMAIN translations
        THEN translations[l] ELSE lt[l]]

\* lastTranslatedText after a success: the source's entry is the text sent
\* (sync) or its trim (nosync), the targets' entries are their translations
LastAfterSuccess(v, lt, translations, sent, sourceLanguage) ==
    [l \in Languages |->
        IF l = sourceLanguage THEN (IF v = "sync" THEN sent ELSE Trim(sent))
        ELSE IF l \in DOMAIN translations THEN translations[l] ELSE lt[l]]

\* mutant: the text sent is recorded before the outcome is known
LastAfterFailureRecording(lt, sent, sourceLanguage) ==
    [lt EXCEPT ![sourceLanguage] = sent]

\* the else branch and the catch block: showError only
LastAfterFailure(lt, sent, sourceLanguage) == lt

\* mutant of the finally block: the flag survives an exception
TranslatingAfterThrow(outcome) == outcome = "throw"

\* finally { this.isTranslating = false }
TranslatingAfterReply(outcome) == FALSE

\* mutant: the publish is not suppressed while an update is received
MaySyncAlways(db, receiving) == db

\* mutant: the publish does not look at this.database
MaySyncUnconfigured(db, receiving) == ~receiving

\* if (!this.database || this.isReceivingUpdate) return
MaySync(db, receiving) == db /\ ~receiving

\* the store tells every listening device of the new value
Notify(s) ==
    inbox' = [d \in Devices |->
                IF database[d] THEN Append(inbox[d], s) ELSE inbox[d]]

\* syncToFirebase: set(sessionRef, {translations, activeLanguage, timestamp})
SyncToFirebase(d, translations, language) ==
    IF MaySync(database[d], isReceivingUpdate[d])
    THEN /\ store' = DataSnapshot(translations, language)
         /\ Notify(DataSnapshot(translations, language))
    ELSE UNCHANGED <<store, inbox>>

\* the provider answers {success: true, translations: m}
ReplyOk(d, m) ==
    /\ d \in devices
    /\ lastApplied' = Upd(lastApplied, d, <<>>)
    /\ UNCHANGED dropped
    /\ requests[d] # <<>>
    /\ LET r == Head(requests[d])
       IN  /\ m \in ResultMaps(r.src)
           /\ value' = Upd(value, d, UpdateTranslations(value[d], m, r.src))
           /\ isNearBottom' = Upd(isNearBottom, d,
                 [l \in Languages |->
                    IF l \in DOMAIN m /\ l # r.src
                    THEN AutoScroll(variant, isNearBottom[d][l], l,
                                    activeLanguage[d], m[l])
                    ELSE isNearBottom[d][l]])
           /\ lastTranslatedText' = Upd(lastTranslatedText, d,
                 LastAfterSuccess(variant, lastTranslatedText[d], m, r.text, r.src))
           /\ IF variant = "sync"
              THEN SyncToFirebase(d, m, r.src)
              ELSE UNCHANGED <<store, inbox>>
           /\ last' = [op |-> "reply", dev |-> d, outcome |-> "ok",
                       src |-> r.src, text |-> r.text, map |-> m]
    /\ isTranslating' = Upd(isTranslating, d, TranslatingAfterReply("ok"))
    /\ requests' = Upd(requests, d, Tail(requests[d]))
    /\ UNCHANGED <<variant, devices, database, activeLanguage, activeClass,
                   focus, translationTimeout, isReceivingUpdate, graceTimer, nEvents>>

\* the provider answers {success: false, error} ("fail"), or fetch or
\* response.json() throws ("throw")
ReplyFail(d, outcome) ==
    /\ d \in devices
    /\ UNCHANGED isNearBottom
    /\ lastApplied' = Upd(lastApplied, d, <<>>)
    /\ UNCHANGED dropped
    /\ requests[d] # <<>>
    /\ LET r == Head(requests[d])
       IN  /\ lastTranslatedText' = Upd(lastTranslatedText, d,
                 LastAfterFailure(lastTranslatedText[d], r.text, r.src))
           /\ last' = [op |-> "reply", dev |-> d, outcome |-> outcome,
                       src |-> r.src, text |-> r.text, map |-> EmptyMap]
    /\ isTranslating' = Upd(isTranslating, d, TranslatingAfterReply(outcome))
    /\ requests' = Upd(requests, d, Tail(requests[d]))
    /\ UNCHANGED <<variant, devices, database, activeLanguage, activeClass,
                   focus, value, translationTimeout, isReceivingUpdate,
                   graceTimer, store, inbox, nEvents>>

\* ----------------------------------------------------------- Firebase sync
\* mutant: the callback does not look at the flag
OnValueAppliesAlways(data, receiving) == data.kind = "data"

\* if (data && data.translations && !this.isReceivingUpdate)
OnValueApplies(data, receiving) == data.kind = "data" /\ ~receiving

\* mutant: no protection of the column the user is typing in
FirebaseSkipsNever(language, active, focused) == FALSE

\* if (isCurrentlyActive && isUserTyping) return
FirebaseSkips(language, active, focused) ==
    language = active /\ focused = language

\* Object.keys(data.translations): the keys of a snapshot's value come in
\* the order of the keys
KeyOrder == <<"english", "french", "klingon", "polish">>
KeyIndex(l) == CHOOSE i \in 1..Len(KeyOrder) : KeyOrder[i] = l

\* the columns at which updateFromFirebase throws: highlightNewContent, and
\* getNewWords in it, call newText.substring on a value that is no string
\* (a TypeError); input.value !== newValue holds for every such value
ThrowsAt(translations, active, focused) ==
    { l \in DOMAIN translations \cap Languages :
        ~FirebaseSkips(l, active, focused) /\ ~IsString(translations[l]) }

UpdateThrows(translations, active, focused) ==
    ThrowsAt(translations, active, focused) # {}

\* forEach reaches column l: no column before it has thrown
Reached(l, translations, active, focused) ==
    \A k \in ThrowsAt(translations, active, focused) : KeyIndex(k) >= KeyIndex(l)

\* updateFromFirebase: input.value of every column found in the snapshot
FirebaseValues(texts, translations, active, focused) ==
    [l \in Languages |->
        IF /\ l \in DOMAIN translations
           /\ ~FirebaseSkips(l, active, focused)
           /\ Reached(l, translations, active, focused)
        THEN translations[l] ELSE texts[l]]

\* updateFromFirebase: lastTranslatedText, set where input.value changes,
\* after highlightNewContent has returned
FirebaseLast(lt, texts, translations, active, focused) ==
    [l \in Languages |->
        IF /\ l \in DOMAIN translations
           /\ ~FirebaseSkips(l, active, focused)
           /\ texts[l] # translations[l]
           /\ Reached(l, translations, active, focused)
           /\ l \notin ThrowsAt(translations, active, focused)
        THEN translations[l] ELSE lt[l]]

\* updateFromFirebase: autoScrollToBottomForLanguage, called where
\* lastTranslatedText is set
FirebaseScroll(v, near, texts, translations, active, focused) ==
    [l \in Languages |->
        IF /\ l \in DOMAIN translations
           /\ ~FirebaseSkips(l, active, focused)
           /\ texts[l] # translations[l]
           /\ Reached(l, translations, active, focused)
           /\ l \notin ThrowsAt(translations, active, focused)
        THEN AutoScroll(v, near[l], l, active, translations[l])
        ELSE near[l]]

\* mutant: the snapshot's active language is not looked at
RemoteSelectsNever(data, active) == FALSE

\* if (data.activeLanguage && data.activeLanguage !== this.activeLanguage)
RemoteSelects(data, active) ==
    data.activeLanguage # NoLang /\ data.activeLanguage # active

\* the onValue callback runs on the next undelivered value
Deliver(d) ==
    /\ d \in devices
    /\ inbox[d] # <<>>
    /\ LET data == Head(inbox[d])
           apply == OnValueApplies(data, isReceivingUpdate[d])
           \* an exception leaves the callback at once
           throws == apply /\ UpdateThrows(data.translations,
                                           activeLanguage[d], focus[d])
           select == apply /\ ~throws /\ RemoteSelects(data, activeLanguage[d])
       IN  /\ value' = Upd(value, d,
                 IF apply
                 THEN FirebaseValues(value[d], data.translations,
                                     activeLanguage[d], focus[d])
                 ELSE value[d])
           /\ lastTranslatedText' = Upd(lastTranslatedText, d,
                 IF apply
                 THEN FirebaseLast(lastTranslatedText[d], value[d],
                                   data.translations, activeLanguage[d], focus[d])
                 ELSE lastTranslatedText[d])
           /\ isNearBottom' = Upd(isNearBottom, d,
                 IF apply
                 THEN FirebaseScroll(variant, isNearBottom[d], value[d],
                                     data.translations, activeLanguage[d],
                                     focus[d])
                 ELSE isNearBottom[d])
           /\ activeLanguage' = Upd(activeLanguage, d,
                 IF select THEN data.activeLanguage ELSE activeLanguage[d])
           /\ activeClass' = Upd(activeClass, d,
                 IF select
                 THEN ColumnsAfterSelect(activeClass[d], data.activeLanguage)
                 ELSE activeClass[d])
           /\ focus' = Upd(focus, d,
                 IF select THEN FocusAfterSelect(focus[d], data.activeLanguage)
                 ELSE focus[d])
           /\ isReceivingUpdate' = Upd(isReceivingUpdate, d,
                                       isReceivingUpdate[d] \/ apply)
           /\ graceTimer' = Upd(graceTimer, d,
                                graceTimer[d] \/ (apply /\ ~throws))
           /\ lastApplied' = Upd(lastApplied, d,
                                 IF apply THEN <<data>> ELSE lastApplied[d])
           /\ last' = [op |-> "deliver", dev |-> d, applied |-> apply,
                       threw |-> throws, selected |-> select, data |-> data]
    /\ inbox' = Upd(inbox, d, Tail(inbox[d]))
    /\ UNCHANGED <<variant, devices, database, translationTimeout,
                   isTranslating, requests, store, nEvents, dropped>>

\* setTimeout(() => { this.isReceivingUpdate = false }, 2000) fires
GraceEnd(d) ==
    /\ d \in devices
    /\ UNCHANGED isNearBottom
    /\ graceTimer[d]
    /\ graceTimer' = Upd(graceTimer, d, FALSE)
    /\ isReceivingUpdate' = Upd(isReceivingUpdate, d, FALSE)
    /\ last' = [op |-> "grace", dev |-> d]
    /\ UNCHANGED <<lastApplied, dropped, variant, devices, database, activeLanguage, activeClass,
                   focus, value, lastTranslatedText, translationTimeout,
                   isTranslating, requests, store, inbox, nEvents>>

\* a client outside the model writes the session record
RemoteWrite(s) ==
    /\ variant = "sync"
    /\ nEvents < MaxEvents
    /\ nEvents' = nEvents + 1
    /\ store' = s
    /\ Notify(s)
    /\ last' = [op |-> "remote"]
    /\ UNCHANGED <<variant, devices, database, devVars, lastApplied, dropped>>

\* the global clearAllText()
ClearAllText(d) ==
    /\ d \in devices
    /\ lastApplied' = Upd(lastApplied, d, <<>>)
    /\ UNCHANGED dropped
    /\ variant = "sync"
    /\ nEvents < MaxEvents
    /\ nEvents' = nEvents + 1
    /\ value' = Upd(value, d, AllEmpty)
    /\ isNearBottom' = Upd(isNearBottom, d,
          [l \in Languages |-> NearAfterEmpty(variant, isNearBottom[d][l])])
    /\ lastTranslatedText' = Upd(lastTranslatedText, d, AllEmpty)
    /\ SyncToFirebase(d, AllEmpty, NoLang)
    /\ last' = [op |-> "clear", dev |-> d]
    /\ UNCHANGED <<variant, devices, database, activeLanguage, activeClass,
                   focus, translationTimeout, isTranslating, requests,
                   isReceivingUpdate, graceTimer>>

\* the page is opened on one more device of the session: the constructor's
\* state is that of Init, and initFirebaseSync replaces the session record by
\* its connection test before it starts to listen
Load(d) ==
    /\ variant = "sync"
    /\ d \in Devices \ devices
    /\ devices' = devices \cup {d}
    /\ database' = Upd(database, d, TRUE)
    /\ store' = TestData
    /\ inbox' = [e \in Devices |->
                   IF database'[e] THEN Append(inbox[e], TestData) ELSE inbox[e]]
    /\ last' = [op |-> "load", dev |-> d]
    /\ UNCHANGED <<variant, devVars, nEvents, lastApplied, dropped>>

\* the reader drags column l, which holds text, away from its end (the
\* text is taken to overflow the textarea) or back to it
Scroll(d, l) ==
    /\ d \in devices
    /\ value[d][l] # <<>>
    /\ isNearBottom' = Upd(isNearBottom, d,
                           [isNearBottom[d] EXCEPT ![l] = ~isNearBottom[d][l]])
    /\ lastApplied' = Upd(lastApplied, d, <<>>)
    /\ last' = [op |-> "scroll", dev |-> d, lang |-> l]
    /\ UNCHANGED <<variant, devices, database, activeLanguage, activeClass,
                   focus, value, lastTranslatedText, translationTimeout,
                   isTranslating, requests, isReceivingUpdate, graceTimer,
                   store, inbox, nEvents, dropped>>

\* ----------------------------------------------------------- specification
Next ==
    \/ \E d \in Devices, l \in Languages : SelectColumn(d, l)
    \/ \E d \in Devices : Blur(d)
    \/ \E d \in Devices, t \in InputTexts : Input(d, t)
    \/ \E d \in Devices : TimerFire(d)
    \/ \E d \in Devices, m \in AllResultMaps : ReplyOk(d, m)
    \/ \E d \in Devices, o \in {"fail", "throw"} : ReplyFail(d, o)
    \/ \E d \in Devices : Deliver(d)
    \/ \E d \in Devices : GraceEnd(d)
    \/ \E s \in RemoteSnapshots : RemoteWrite(s)
    \/ \E d \in Devices : ClearAllText(d)

Spec == Init /\ [][Next]_vars

\* the fetch of translateText settles: the provider answers or errors
ProviderReplies(d) ==
    \/ \E m \in AllResultMaps : ReplyOk(d, m)
    \/ \E o \in {"fail", "throw"} : ReplyFail(d, o)

\* Spec with every outstanding fetch eventually settled
FairSpec == Spec /\ \A d \in Devices : WF_vars(ProviderReplies(d))

\* a device whose user typed "Hello there. " in the english column and
\* whose debounce timer has expired: the request is in flight
InitInFlight ==
    /\ variant \in {"sync", "nosync"}
    /\ devices = {"A"}
    /\ database = [d \in Devices |-> variant = "sync" /\ d = "A"]
    /\ activeLanguage = [d \in Devices |->
          IF d = "A" \/ variant = "sync" THEN DefaultLanguage ELSE NoLang]
    /\ activeClass = [d \in Devices |->
          IF d = "A" \/ variant = "sync"
          THEN ColumnsAfterSelect({}, DefaultLanguage) ELSE {}]
    /\ focus = [d \in Devices |->
          IF d = "A" \/ variant = "sync"
          THEN FocusAfterSelect(NoLang, DefaultLanguage) ELSE NoLang]
    /\ value = [d \in Devices |->
          IF d = "A" THEN [AllEmpty EXCEPT ![DefaultLanguage] = HelloSp]
          ELSE AllEmpty]
    /\ lastTranslatedText = [d \in Devices |-> AllEmpty]
    /\ translationTimeout = [d \in Devices |-> <<>>]
    /\ isTranslating = [d \in Devices |-> d = "A"]
    /\ requests = [d \in Devices |->
          IF d = "A" THEN << TimerPayload(variant, HelloSp, DefaultLanguage) >>
          ELSE <<>>]
    /\ isReceivingUpdate = [d \in Devices |-> FALSE]
    /\ graceTimer = [d \in Devices |-> FALSE]
    /\ isNearBottom = [d \in Devices |-> [l \in Languages |-> TRUE]]
    /\ store = TestData
    /\ inbox = [d \in Devices |-> IF database[d] THEN <<TestData>> ELSE <<>>]
    /\ nEvents = 0
    /\ lastApplied = [d \in Devices |-> <<>>]
    /\ dropped = [d \in Devices |-> FALSE]
    /\ last = [op |-> "timer", dev |-> "A", issued |-> TRUE]

RetrySpec == InitInFlight /\ [][Next]_vars

\* one device of the sync variant, window.firebase present or missing
InitAnyStore == \E F \in SUBSET {"A"} : InitFor({"A"}, {"sync"}, F)

LocalSpec == InitAnyStore /\ [][Next]_vars

\* two devices that loaded the page of one session, both with Firebase
InitTwo == InitFor({"A", "B"}, {"sync"}, {"A", "B"})

\* device A is used; device B is a display nobody touches, except to
\* dismiss its keyboard
NextTwo ==
    \/ \E l \in Languages : SelectColumn("A", l)
    \/ \E t \in InputTexts : Input("A", t)
    \/ TimerFire("A")
    \/ \E m \in AllResultMaps : ReplyOk("A", m)
    \/ \E o \in {"fail", "throw"} : ReplyFail("A", o)
    \/ ClearAllText("A")
    \/ Blur("B")
    \/ \E d \in Devices : Deliver(d)
    \/ \E d \in Devices : GraceEnd(d)

TwoSpec == InitTwo /\ [][NextTwo]_vars

\* device A in use with the store available, device B opening the page of
\* the same session at any moment
InitJoin == InitFor({"A"}, {"sync"}, {"A"})

NextJoin ==
    \/ \E l \in Languages : SelectColumn("A", l)
    \/ \E t \in InputTexts : Input("A", t)
    \/ TimerFire("A")
    \/ \E m \in AllResultMaps : ReplyOk("A", m)
    \/ \E o \in {"fail", "throw"} : ReplyFail("A", o)
    \/ Load("B")
    \/ \E d \in Devices : Deliver(d)
    \/ \E d \in Devices : GraceEnd(d)

JoinSpec == InitJoin /\ [][NextJoin]_vars

\* one device whose reader also scrolls the columns
NextScroll ==
    \/ Next
    \/ \E d \in Devices, l \in Languages : Scroll(d, l)

ScrollSpec == Init /\ [][NextScroll]_vars

\* one device, alone on its session, whose provider answers every request
\* with success
NextAnswered ==
    \/ \E l \in Languages : SelectColumn("A", l)
    \/ Blur("A")
    \/ \E t \in InputTexts : Input("A", t)
    \/ TimerFire("A")
    \/ \E m \in AllResultMaps : ReplyOk("A", m)
    \/ Deliver("A")
    \/ GraceEnd("A")

AnsweredSpec == Init /\ [][NextAnswered]_vars

\* ------------------------------------------------------------- properties

\* C1: on every device at most one column is marked active in every
\* reachable state: none before the first selection, and after
\* selectColumn(L) for an existing column L exactly L and no other column.
C1_AtMostOneActive ==
    \A d \in devices :
        /\ Cardinality(activeClass[d]) <= 1
        /\ activeLanguage[d] = NoLang => activeClass[d] = {}
        /\ activeLanguage[d] \in Languages => activeClass[d] = {activeLanguage[d]}
        /\ (last.op = "select" /\ last.dev = d) =>
              /\ activeLanguage[d] = last.lang
              /\ activeClass[d] = {last.lang}

\* a column other than the one selected at construction has been selected,
\* after text was entered and a snapshot arrived
C1_Witness ==
    /\ last.op = "select" /\ last.dev = "A" /\ last.lang = "french"
    /\ activeClass["A"] = {"french"}
    /\ value["A"]["english"] # <<>>

\* C2: on one device at most one provider request is outstanding at any
\* instant, and while one is outstanding isTranslating is true.
C2_OneRequestInFlight ==
    \A d \in devices :
        /\ Len(requests[d]) <= 1
        /\ requests[d] # <<>> => isTranslating[d]

\* a debounce expiry met a request in flight and was dropped
C2_Witness ==
    /\ last.op = "timer" /\ last.dev = "A" /\ ~last.issued
    /\ Len(requests["A"]) = 1

\* C3, as stated: whenever the debounce delay of a qualifying keystroke in
\* column L elapses and L still holds the text of that keystroke (no further
\* edits), exactly one provider call is issued, carrying that text (as it
\* stands, or trimmed) and the source language L.
C3_Original ==
    [][\A d \in devices :
         (last'.op = "timer" /\ last'.dev = d) =>
            LET p == Head(translationTimeout[d])
                n == Len(requests'[d])
            IN  p.text \in {value[d][p.src], Trim(value[d][p.src])} =>
                   /\ n = Len(requests[d]) + 1
                   /\ requests'[d][n].src = p.src
                   /\ requests'[d][n].text \in
                         {value[d][p.src], Trim(value[d][p.src])}
      ]_vars

\* C3, amended: an accepted keystroke whose trimmed text is not empty,
\* differs from lastTranslatedText[L] and passes the variant's filter leaves
\* one pending timer for (that text, L), the text trimmed in the sync variant
\* and as typed in the nosync variant; when the delay elapses the timer is
\* consumed and exactly one call with that payload is issued if no request
\* is in flight, and none otherwise; no other step issues a call.
C3_DebouncedCall ==
    [][\A d \in devices :
         /\ (last'.op = "input" /\ last'.dev = d /\ last'.accepted) =>
               LET l == last'.lang
                   t == value'[d][l]
                   qualifies ==
                      /\ Trim(t) # <<>>
                      /\ Trim(t) # lastTranslatedText[d][l]
                      /\ variant = "sync" =>
                            shouldTranslateNewContent(lastTranslatedText[d][l], Trim(t))
               IN  qualifies =>
                      translationTimeout'[d] =
                         << [text |-> IF variant = "sync" THEN Trim(t) ELSE t,
                             src |-> l] >>
         /\ (last'.op = "timer" /\ last'.dev = d) =>
               /\ translationTimeout'[d] = <<>>
               /\ requests'[d] = IF isTranslating[d] THEN requests[d]
                                 ELSE Append(requests[d], Head(translationTimeout[d]))
         /\ Len(requests'[d]) > Len(requests[d]) =>
               (last'.op = "timer" /\ last'.dev = d)
      ]_vars

\* the delay of "Hello there. " typed in the english column has elapsed and
\* the call for its trimmed text is outstanding
C3_Witness ==
    /\ variant = "sync"
    /\ last.op = "timer" /\ last.dev = "A" /\ last.issued
    /\ value["A"]["english"] = HelloSp
    /\ requests["A"] = << [text |-> Hello, src |-> "english"] >>

\* C4: when a successful result for a request from source column C is
\* applied, every other column named in the result shows exactly the text
\* the result gives it, and the text of column C is unchanged, also when the
\* result has an entry for C.
C4_ResultFanOut ==
    [][\A d \in devices :
         (last'.op = "reply" /\ last'.dev = d /\ last'.outcome = "ok") =>
            LET m == last'.map
                C == last'.src
            IN  /\ \A l \in (DOMAIN m \cap Languages) \ {C} : value'[d][l] = m[l]
                /\ value'[d][C] = value[d][C]
      ]_vars

\* a result with an entry for the source column english has been applied:
\* french and polish show their translations, english keeps the typed text
C4_Witness ==
    /\ last.op = "reply" /\ last.dev = "A" /\ last.outcome = "ok"
    /\ last.src = "english" /\ "english" \in DOMAIN last.map
    /\ value["A"]["french"] = Tx("french", "1")
    /\ value["A"]["polish"] = Tx("polish", "1")
    /\ value["A"]["english"] = HelloSp
    /\ last.map["english"] # HelloSp

\* C5: an accepted keystroke that leaves the active column's trimmed text
\* empty sets, in the same step, the text and lastTranslatedText of every
\* other column to the empty string and leaves no debounce timer pending.
C5_ClearIsSynchronous ==
    [][\A d \in devices :
         (/\ last'.op = "input" /\ last'.dev = d /\ last'.accepted
          /\ Trim(value'[d][last'.lang]) = <<>>) =>
            /\ \A l \in Languages \ {last'.lang} :
                  value'[d][l] = <<>> /\ lastTranslatedText'[d][l] = <<>>
            /\ translationTimeout'[d] = <<>>
      ]_vars

\* the english column, translated before (so that the other columns held its
\* translations), has been blanked and the other columns are empty
C5_Witness ==
    /\ last.op = "input" /\ last.dev = "A" /\ last.accepted
    /\ last.lang = "english"
    /\ value["A"]["english"] = Blank
    /\ lastTranslatedText["A"]["english"] = Hello
    /\ \A l \in {"french", "polish"} :
          value["A"][l] = <<>> /\ lastTranslatedText["A"][l] = <<>>

\* C6: when a remote snapshot with an entry for language L is applied while
\* L is the active column and has the input focus, the text and
\* lastTranslatedText of column L are unchanged by the application.
C6_FocusedColumnProtected ==
    [][\A d \in devices :
         (last'.op = "deliver" /\ last'.dev = d /\ last'.applied) =>
            LET data == Head(inbox[d])
                L == activeLanguage[d]
            IN  (L \in DOMAIN data.translations /\ focus[d] = L) =>
                   /\ value'[d][L] = value[d][L]
                   /\ lastTranslatedText'[d][L] = lastTranslatedText[d][L]
      ]_vars

\* a snapshot with another text for english was applied while the user was
\* typing in english: french shows the snapshot's text, english the typed one
C6_Witness ==
    /\ last.op = "deliver" /\ last.dev = "A" /\ last.applied
    /\ lastApplied["A"] # <<>>
    /\ LET tr == lastApplied["A"][1].translations
       IN  /\ {"english", "french"} \subseteq DOMAIN tr
           /\ tr["english"] # HelloSp
           /\ value["A"]["french"] = tr["french"]
    /\ value["A"]["english"] = HelloSp

\* C7, as stated: when the snapshot a device applied last is delivered to it
\* again, with no local event in between, the second delivery changes no
\* column text, no lastTranslatedText entry and not the active column.
C7_Idempotent ==
    [][\A d \in devices :
         (/\ last'.op = "deliver" /\ last'.dev = d
          /\ lastApplied[d] = << Head(inbox[d]) >>) =>
            /\ value'[d] = value[d]
            /\ lastTranslatedText'[d] = lastTranslatedText[d]
            /\ activeLanguage'[d] = activeLanguage[d]
      ]_vars

\* C8: when a provider call fails (success = false, or the transport
\* throws), the texts, the lastTranslatedText entries and the active column
\* of the device are as before, and nothing is written to the store.
C8_FailureLeavesState ==
    [][\A d \in devices :
         (/\ last'.op = "reply" /\ last'.dev = d
          /\ last'.outcome \in {"fail", "throw"}) =>
            /\ value'[d] = value[d]
            /\ lastTranslatedText'[d] = lastTranslatedText[d]
            /\ activeLanguage'[d] = activeLanguage[d]
            /\ activeClass'[d] = activeClass[d]
            /\ store' = store
            /\ inbox' = inbox
      ]_vars

\* the call for the text typed in english has failed: the text is still
\* there, untranslated, and no request is outstanding
C8_Witness ==
    /\ last.op = "reply" /\ last.dev = "A" /\ last.outcome = "fail"
    /\ last.src = "english"
    /\ value["A"]["english"] = HelloSp
    /\ lastTranslatedText["A"]["english"] = <<>>
    /\ requests["A"] = <<>>

\* C9: if the provider eventually answers or errors, every request issued
\* is followed by a state where isTranslating is false again, whatever the
\* outcome; and a debounce expiry that finds the flag false issues a request.
C9_FlagCleared ==
    /\ \A d \in Devices : isTranslating[d] ~> ~isTranslating[d]
    /\ [][\A d \in devices :
            (last'.op = "timer" /\ last'.dev = d /\ ~isTranslating[d]) =>
               /\ last'.issued
               /\ isTranslating'[d]
               /\ Len(requests'[d]) = Len(requests[d]) + 1
         ]_vars

\* the transport has thrown for the request of the english column and the
\* flag is down again
C9_Witness ==
    /\ last.op = "reply" /\ last.dev = "A" /\ last.outcome = "throw"
    /\ ~isTranslating["A"]
    /\ requests["A"] = <<>>
    /\ translationTimeout["A"] = <<>>

\* C10, as stated: with the active column and its lastTranslatedText empty,
\* a keystroke leaving fewer than MinNewChars characters starts no debounce
\* timer, so that no provider call follows however long the user waits.
C10_Original ==
    [][\A d \in devices :
         (/\ last'.op = "input" /\ last'.dev = d /\ last'.accepted
          /\ value[d][last'.lang] = <<>>
          /\ lastTranslatedText[d][last'.lang] = <<>>
          /\ Trim(value'[d][last'.lang]) # <<>>
          /\ Len(Trim(value'[d][last'.lang])) < MinNewChars) =>
            /\ translationTimeout'[d] = <<>>
            /\ requests'[d] = requests[d]
      ]_vars

\* C10, amended: the same keystroke starts no debounce timer in the sync
\* variant, and in the no-sync variant, which has no significance filter,
\* it starts the timer for a call with the text typed.
C10_BelowThreshold ==
    [][\A d \in devices :
         (/\ last'.op = "input" /\ last'.dev = d /\ last'.accepted
          /\ value[d][last'.lang] = <<>>
          /\ lastTranslatedText[d][last'.lang] = <<>>
          /\ Trim(value'[d][last'.lang]) # <<>>
          /\ Len(Trim(value'[d][last'.lang])) < MinNewChars) =>
            /\ requests'[d] = requests[d]
            /\ IF variant = "sync"
               THEN translationTimeout'[d] = <<>>
               ELSE translationTimeout'[d] =
                       << [text |-> value'[d][last'.lang],
                           src |-> last'.lang] >>
      ]_vars

\* "Hi" has been typed in the empty english column of the sync variant:
\* no timer is pending and no request was issued
C10_Witness ==
    /\ variant = "sync"
    /\ last.op = "input" /\ last.dev = "A" /\ last.accepted
    /\ last.lang = "english"
    /\ value["A"]["english"] = Hi
    /\ lastTranslatedText["A"]["english"] = <<>>
    /\ translationTimeout["A"] = <<>>
    /\ requests["A"] = <<>>
    /\ ~isTranslating["A"]

\* C11, as stated: when A has applied a successful result and published it,
\* and B, with no column focused, receives that snapshot next, B shows in
\* every column the text A shows in that column (the source column
\* included) and has issued no provider call of its own.
C11_Original ==
    [][(/\ last.op = "reply" /\ last.dev = "A" /\ last.outcome = "ok"
        /\ store = DataSnapshot(last.map, last.src)
        /\ inbox["B"] = << store >>
        /\ focus["B"] = NoLang
        /\ ~isReceivingUpdate["B"]
        /\ last'.op = "deliver" /\ last'.dev = "B") =>
           /\ \A l \in Languages : value'["B"][l] = value'["A"][l]
           /\ requests'["B"] = <<>>
           /\ translationTimeout'["B"] = <<>>
           /\ ~isTranslating'["B"]
      ]_vars

\* C12, as stated: once nothing is pending any more (no timer, no reply,
\* no undelivered notification, no suppression window), a device that has
\* nothing focused and saw no local event since it last applied a snapshot
\* shows, in every column of the store's record, the text of that record.
C12_Converges ==
    \A d \in devices :
        (/\ database[d]
         /\ store.kind = "data"
         /\ inbox[d] = <<>>
         /\ translationTimeout[d] = <<>>
         /\ requests[d] = <<>>
         /\ ~graceTimer[d] /\ ~isReceivingUpdate[d]
         /\ focus[d] = NoLang
         /\ lastApplied[d] # <<>>) =>
            \A l \in DOMAIN store.translations \cap Languages :
                value[d][l] = store.translations[l]

\* C13: while isReceivingUpdate is set on a device, its publish (after a
\* successful reply, or from "clear all") writes nothing to the store; the
\* application of a snapshot and the end of the suppression window write
\* nothing, start no timer and issue no provider call; so the store is
\* written only in a step of a reply, of "clear all" or of another client.
C13_NoEcho ==
    [][/\ \A d \in devices :
             /\ (/\ last'.op \in {"reply", "clear"} /\ last'.dev = d
                 /\ isReceivingUpdate[d]) =>
                    (store' = store /\ inbox' = inbox)
             /\ (last'.op \in {"deliver", "grace"} /\ last'.dev = d) =>
                    /\ store' = store
                    /\ \A e \in Devices : Len(inbox'[e]) <= Len(inbox[e])
                    /\ requests' = requests
                    /\ translationTimeout' = translationTimeout
                    /\ isTranslating' = isTranslating
       /\ (\E e \in Devices : Len(inbox'[e]) > Len(inbox[e])) =>
             last'.op \in {"reply", "clear", "remote"}
      ]_vars

\* a successful result arrived on A while A was applying a snapshot: the
\* columns show it, the store does not
C13_Witness ==
    /\ last.op = "reply" /\ last.dev = "A" /\ last.outcome = "ok"
    /\ isReceivingUpdate["A"]
    /\ store # DataSnapshot(last.map, last.src)
    /\ \A l \in DOMAIN last.map \ {last.src} : value["A"][l] = last.map[l]

\* C14: a device that found no store at startup never receives a snapshot
\* and never writes one, and translates as usual: a keystroke that passes
\* the filter starts the timer, the expiry issues the call when none is in
\* flight, and a successful result is put in the other columns and in
\* lastTranslatedText.
C14_LocalOnly ==
    /\ [](\A d \in devices :
             ~database[d] =>
                /\ inbox[d] = <<>>
                /\ lastApplied[d] = <<>>
                /\ ~isReceivingUpdate[d] /\ ~graceTimer[d])
    /\ [][\A d \in devices :
            ~database[d] =>
               /\ (last'.op \in {"reply", "clear"} /\ last'.dev = d) =>
                     (store' = store /\ inbox' = inbox)
               /\ (/\ last'.op = "input" /\ last'.dev = d /\ last'.accepted
                   /\ lastTranslatedText[d][last'.lang] = <<>>
                   /\ Len(Trim(value'[d][last'.lang])) >= MinNewChars) =>
                     translationTimeout'[d] =
                        << [text |-> Trim(value'[d][last'.lang]),
                            src |-> last'.lang] >>
               /\ (last'.op = "timer" /\ last'.dev = d /\ ~isTranslating[d]) =>
                     requests'[d] =
                        Append(requests[d], Head(translationTimeout[d]))
               /\ (/\ last'.op = "reply" /\ last'.dev = d
                   /\ last'.outcome = "ok") =>
                     /\ lastTranslatedText'[d][last'.src] =
                           Head(requests[d]).text
                     /\ \A l \in DOMAIN last'.map \ {last'.src} :
                           /\ value'[d][l] = last'.map[l]
                           /\ lastTranslatedText'[d][l] = last'.map[l]
         ]_vars

\* without a store, the text typed in english was translated into the other
\* two columns
C14_Witness ==
    /\ ~database["A"]
    /\ last.op = "reply" /\ last.dev = "A" /\ last.outcome = "ok"
    /\ value["A"]["english"] = HelloSp
    /\ lastTranslatedText["A"]["english"] = Hello
    /\ value["A"]["french"] = Tx("french", "1")
    /\ value["A"]["polish"] = Tx("polish", "1")
    /\ store = TestData
    /\ inbox["A"] = <<>>

\* C15, as stated: selectColumn with a language that names no column of
\* the page (here from a snapshot's activeLanguage) leaves the active
\* language, the column marked active and the focus as they were.
C15_UnknownIsNoOp ==
    [][\A d \in devices :
         (/\ last'.op = "deliver" /\ last'.dev = d /\ last'.applied
          /\ Head(inbox[d]).activeLanguage \notin Languages \cup {NoLang}) =>
            /\ activeLanguage'[d] = activeLanguage[d]
            /\ activeClass'[d] = activeClass[d]
            /\ focus'[d] = focus[d]
      ]_vars

C17_Original ==
    [][\A d \in devices :
         (variant = "sync" /\ last'.op = "input" /\ last'.dev = d
            /\ last'.accepted) =>
            LET cur == Trim(value'[d][last'.lang])
                old == lastTranslatedText[d][last'.lang]
                NTerm(s) == Cardinality({i \in 1..Len(s) : IsTerminator(s[i])})
                TailLen(s) == IF Sentences(s) = <<>> THEN 0
                              ELSE Len(Trim(Sentences(s)[Len(Sentences(s))]))
            IN  (/\ cur # <<>> /\ cur # old
                 /\ \/ Len(cur) < Len(old)
                    \/ Len(cur) - Len(old) >= MinNewChars
                    \/ NTerm(cur) > NTerm(old)
                    \/ TailLen(cur) - TailLen(old) > TailGrowth) =>
                   translationTimeout'[d] # <<>>
      ]_vars

\* C18, as stated: when a successful result is applied, the column that
\* is the active column at that moment keeps its text.
C18_ActiveKept ==
    [][\A d \in devices :
         (/\ last'.op = "reply" /\ last'.dev = d /\ last'.outcome = "ok"
          /\ activeLanguage[d] \in Languages) =>
            value'[d][activeLanguage[d]] = value[d][activeLanguage[d]]
      ]_vars

C20_DroppedWithoutEffect ==
    [][\A d \in devices :
         /\ (last'.op = "timer" /\ last'.dev = d /\ isTranslating[d]) =>
               /\ ~last'.issued
               /\ requests' = requests
               /\ value' = value
               /\ lastTranslatedText' = lastTranslatedText
               /\ isTranslating' = isTranslating
               /\ translationTimeout'[d] = <<>>
               /\ store' = store /\ inbox' = inbox
         /\ (/\ translationTimeout'[d] # <<>>
             /\ translationTimeout'[d] # translationTimeout[d]) =>
               (last'.op = "input" /\ last'.dev = d /\ last'.accepted)
         /\ Len(requests'[d]) > Len(requests[d]) =>
               /\ last'.op = "timer" /\ last'.dev = d
               /\ translationTimeout[d] # <<>>
               /\ ~dropped'[d]
      ]_vars

\* the expiry for "Hi.", typed in the no-sync variant while the request for
\* "Hello there. " was in flight, has been dropped: one request, no timer
C20_Witness ==
    /\ variant = "nosync"
    /\ last.op = "timer" /\ last.dev = "A" /\ ~last.issued
    /\ dropped["A"]
    /\ isTranslating["A"]
    /\ requests["A"] = << [text |-> HelloSp, src |-> "english"] >>
    /\ value["A"]["english"] = HiStop
    /\ translationTimeout["A"] = <<>>

C22_OneTimer ==
    [][\A d \in devices :
         /\ Len(translationTimeout'[d]) <= 1
         /\ (last'.op = "input" /\ last'.dev = d /\ last'.accepted) =>
               translationTimeout'[d] \in
                  { <<>>,
                    << [text |-> IF variant = "sync"
                                 THEN Trim(value'[d][last'.lang])
                                 ELSE value'[d][last'.lang],
                        src |-> last'.lang] >> }
         /\ (last'.op = "timer" /\ last'.dev = d) =>
               /\ translationTimeout'[d] = <<>>
               /\ last'.issued =>
                     requests'[d] =
                        Append(requests[d], Head(translationTimeout[d]))
         /\ translationTimeout'[d] # translationTimeout[d] =>
               /\ last'.dev = d
               /\ \/ last'.op = "timer"
                  \/ last'.op = "input" /\ last'.accepted
      ]_vars

\* "Hi." was typed while the timer for "Hello there. " was pending: that
\* timer is cancelled and the only pending timer carries "Hi."
C22_Witness ==
    /\ variant = "nosync"
    /\ last.op = "input" /\ last.dev = "A" /\ last.cancelled
    /\ last.lang = "english"
    /\ requests["A"] = <<>>
    /\ value["A"]["english"] = HiStop
    /\ translationTimeout["A"] = << [text |-> HiStop, src |-> "english"] >>

\* C23: a provider call is never issued for a source language with a text
\* equal to that language's lastTranslatedText at the moment of the call.
C23_NoRedundantCall ==
    [][\A d \in devices :
         (last'.op = "timer" /\ last'.dev = d /\ last'.issued) =>
            LET p == Head(translationTimeout[d])
            IN  Trim(p.text) # lastTranslatedText[d][p.src]
      ]_vars

C25_TrimmedFullText ==
    \A d \in devices :
       \A i \in 1..Len(requests[d]) :
          requests[d][i].text = Trim(requests[d][i].text)

\* C26: with A the only writer of the session (no record of another
\* client is ever applied by A), every successful translation on A, whose
\* store is available, replaces the stored record by the result and its
\* source language and notifies the listening devices.
C26_EverySuccessPublished ==
    [][(/\ last'.op = "reply" /\ last'.dev = "A" /\ last'.outcome = "ok"
        /\ database["A"]) =>
           /\ store' = DataSnapshot(last'.map, last'.src)
           /\ \A d \in devices :
                 database[d] =>
                    inbox'[d] = Append(inbox[d],
                                       DataSnapshot(last'.map, last'.src))
      ]_vars

\* C27: a device that connects to the session does not write the session
\* record: the record is the same after the page has loaded as before, and
\* stored translations stay stored.
C27_ConnectKeepsRecord ==
    [][/\ last'.op = "load" => store' = store
       /\ store.kind = "data" => store'.kind = "data"
      ]_vars

\* C28: a store notification delivered while isReceivingUpdate is set is
\* not applied: no column text, no lastTranslatedText entry, neither the
\* active column nor its marking nor the focus changes, the flag stays set
\* and the grace timer is as it was; nothing is written to the store.
C28_SuppressedIgnored ==
    [][\A d \in devices :
         (last'.op = "deliver" /\ last'.dev = d /\ isReceivingUpdate[d]) =>
            /\ ~last'.applied
            /\ value'[d] = value[d]
            /\ lastTranslatedText'[d] = lastTranslatedText[d]
            /\ activeLanguage'[d] = activeLanguage[d]
            /\ activeClass'[d] = activeClass[d]
            /\ focus'[d] = focus[d]
            /\ isReceivingUpdate'[d]
            /\ graceTimer'[d] = graceTimer[d]
            /\ translationTimeout'[d] = translationTimeout[d]
            /\ requests'[d] = requests[d]
            /\ store' = store
      ]_vars

\* a record with other texts and another active language has been
\* delivered during the grace delay of an earlier one and was ignored
C28_Witness ==
    /\ last.op = "deliver" /\ last.dev = "A" /\ ~last.applied
    /\ last.data = DataSnapshot([l \in Languages |-> Tx(l, "2")], "polish")
    /\ isReceivingUpdate["A"] /\ graceTimer["A"]
    /\ activeLanguage["A"] = "english"
    /\ value["A"] = AllEmpty
    /\ inbox["A"] = <<>>

\* C29: while isReceivingUpdate is set, the grace timer that clears it is
\* pending, whatever record set the flag, and the flag is cleared by the
\* expiry of that timer only: the flag is never left set with nothing to
\* clear it.
C29_FlagHasTimer ==
    [][\A d \in devices :
         /\ isReceivingUpdate'[d] => graceTimer'[d]
         /\ (isReceivingUpdate[d] /\ ~isReceivingUpdate'[d]) =>
               (last'.op = "grace" /\ last'.dev = d)
      ]_vars

C31_ScrollKept ==
    [][\A d \in devices, l \in Languages :
         (/\ last'.op \in {"reply", "deliver"} /\ last'.dev = d
          /\ l # activeLanguage[d]
          /\ value'[d][l] # <<>>
          /\ ~isNearBottom[d][l]) => ~isNearBottom'[d][l]
      ]_vars

\* C32: once nothing is pending on a device whose provider answers every
\* request with success (no debounce timer, no request in flight, no
\* notification undelivered), the text of the active column, trimmed, is
\* empty or is the column's lastTranslatedText: every text the user stopped
\* at was sent and recorded.
C32_Quiescence ==
    \A d \in devices :
       (/\ activeLanguage[d] \in Languages
        /\ last.op \in {"input", "timer", "reply"}
        /\ translationTimeout[d] = <<>>
        /\ requests[d] = <<>>
        /\ inbox[d] = <<>>) =>
          LET T == Trim(value[d][activeLanguage[d]])
          IN  T = <<>> \/ lastTranslatedText[d][activeLanguage[d]] = T

\* C33: when the active column was emptied, the other columns are empty
\* and nothing is in flight, the keystroke that retypes the text last
\* translated from that column starts the debounce timer whose expiry
\* issues the call that fills the other columns again.
C33_RetypeTranslates ==
    [][\A d \in devices :
         (/\ last'.op = "input" /\ last'.dev = d /\ last'.accepted
          /\ Trim(value[d][last'.lang]) = <<>>
          /\ \A l \in Languages \ {last'.lang} : value[d][l] = <<>>
          /\ requests[d] = <<>> /\ inbox[d] = <<>>
          /\ lastTranslatedText[d][last'.lang] # <<>>
          /\ Trim(value'[d][last'.lang]) = lastTranslatedText[d][last'.lang])
            => translationTimeout'[d] # <<>>
      ]_vars

\* C34: the reply that arrives right after the keystroke that emptied the
\* active column, for a request issued before it, leaves the other columns
\* empty and sets no lastTranslatedText entry.
C34_ClearedStaysCleared ==
    [][\A d \in devices :
         (/\ last.op = "input" /\ last.dev = d /\ last.accepted
          /\ Trim(value[d][last.lang]) = <<>>
          /\ last'.op = "reply" /\ last'.dev = d) =>
            /\ \A l \in Languages \ {last.lang} : value'[d][l] = <<>>
            /\ lastTranslatedText'[d] = lastTranslatedText[d]
      ]_vars

\* C35: right after clearAllText, the expiry of a debounce timer that was
\* pending issues no provider call, and the reply of a request that was in
\* flight leaves every column and every lastTranslatedText entry empty.
C35_ClearAllStaysCleared ==
    [][\A d \in devices :
         (last.op = "clear" /\ last.dev = d) =>
            /\ (last'.op = "timer" /\ last'.dev = d) => ~last'.issued
            /\ (last'.op = "reply" /\ last'.dev = d) =>
                  /\ value'[d] = AllEmpty
                  /\ lastTranslatedText'[d] = AllEmpty
      ]_vars

\* C36: with A the only writer of the session, every record with an
\* active language that A applies is the echo of a translation result A
\* published itself, and applying it changes none of A's column texts and
\* neither its active column nor its focus.
C36_SelfEchoNoEffect ==
    [][(/\ last'.op = "deliver" /\ last'.dev = "A" /\ last'.applied
        /\ last'.data.activeLanguage # NoLang) =>
          /\ value'["A"] = value["A"]
          /\ activeLanguage'["A"] = activeLanguage["A"]
          /\ activeClass'["A"] = activeClass["A"]
          /\ focus'["A"] = focus["A"]
      ]_vars

====
